---- MODULE Spec2Model ----
(***************************************************************************)
(* Model of lecker's command line (src/lecker/cli.py): the fetch command  *)
(* (URL normalisation, the crawl delegate call with its stream            *)
(* redirection, printing and exit code) and the setup command (browser    *)
(* detection, the two subprocesses, the except clauses).                   *)
(*                                                                         *)
(* Text is a sequence of strings whose concatenation is the text; a URL   *)
(* is a sequence of one-character strings.                                 *)
(***************************************************************************)
EXTENDS Integers, Sequences, FiniteSets, TLC

VARIABLES cmd, pc, url_in, url, verbose, sys_stdout, sys_stderr,
          saved_stdout, saved_stderr, real_out, real_err, discarded,
          delegate_urls, nlogs, result, exc, caught, exit_code,
          installed, calls

vars == <<cmd, pc, url_in, url, verbose, sys_stdout, sys_stderr,
          saved_stdout, saved_stderr, real_out, real_err, discarded,
          delegate_urls, nlogs, result, exc, caught, exit_code,
          installed, calls>>

\* ---------------------------------------------------------------- bounds
MaxTail == 2
MaxLogs == 1

\* ------------------------------------------------------------- constants
HTTP == <<"h", "t", "t", "p", ":", "/", "/">>
HTTPS == <<"h", "t", "t", "p", "s", ":", "/", "/">>

chrome_paths ==
    << "chrome", "google-chrome", "chromium", "chromium-browser",
       "/Applications/Google Chrome.app/Contents/MacOS/Google Chrome",
       "/Applications/Chromium.app/Contents/MacOS/Chromium" >>

PLAYWRIGHT == "playwright"
CRAWL4AI_SETUP == "crawl4ai-setup"

\* ---------------------------------------------------------------- inputs
TailChars == {"a", "/", ":"}

Tails == UNION {[1..n -> TailChars] : n \in 0..MaxTail}

Heads ==
    { <<>>, HTTP, HTTPS,
      <<"h", "t", "t", "p", ":", "/">>,
      <<"h", "t", "t", "p", "s", ":", "/">>,
      <<"H", "T", "T", "P", ":", "/", "/">>,
      <<"f", "t", "p", ":", "/", "/">> }

Urls == {h \o t : h \in Heads, t \in Tails}

\* What the delegate can return in result.markdown: None, "", or text.
NoneResult == [isNone |-> TRUE, text |-> <<>>]

Results ==
    { NoneResult,
      [isNone |-> FALSE, text |-> <<>>],
      [isNone |-> FALSE, text |-> <<"# Title">>],
      [isNone |-> FALSE, text |-> <<"sad">>] }

\* Exception subclasses the delegate can raise.
DelegateErrors == {"TimeoutError", "RuntimeError"}

Executables ==
    {chrome_paths[i] : i \in 1..Len(chrome_paths)}
        \cup {PLAYWRIGHT, CRAWL4AI_SETUP, "firefox"}

\* ---------------------------------------------------------------- helpers
startswith(s, p) == Len(s) >= Len(p) /\ SubSeq(s, 1, Len(p)) = p

NormalizeUrlAlways(u) == HTTPS \o u

\* fetch, lines 60-62
NormalizeUrl(u) ==
    IF ~(startswith(u, HTTP) \/ startswith(u, HTTPS)) THEN HTTPS \o u ELSE u

TruthyNotNone(r) == ~r.isNone

\* truth value of `result := asyncio.run(...)`, line 65
Truthy(r) == ~r.isNone /\ r.text # <<>>

Entry(by, text) == [by |-> by, text |-> text]

\* print(..., file=<stream>) at a moment when the stream is bound to target
WriteOut(target, entries) ==
    IF target = "real"
    THEN /\ real_out' = real_out \o entries
         /\ UNCHANGED discarded
    ELSE /\ discarded' = discarded \o entries
         /\ UNCHANGED real_out

WriteErr(target, entries) ==
    IF target = "real"
    THEN /\ real_err' = real_err \o entries
         /\ UNCHANGED discarded
    ELSE /\ discarded' = discarded \o entries
         /\ UNCHANGED real_err

RedirectTarget(isVerbose, cur) == IF isVerbose THEN cur ELSE "buffer"

RestoreStreamKeep(isVerbose, saved, cur) == cur

\* leaving the `with redirect_stdout(...), redirect_stderr(...)` block
RestoreStream(isVerbose, saved, cur) == IF isVerbose THEN cur ELSE saved

\* ------------------------------------------------------------------ Init
Init ==
    /\ cmd \in {"fetch", "setup"}
    /\ pc = "start"
    /\ IF cmd = "fetch"
       THEN /\ url_in \in Urls
            /\ verbose \in BOOLEAN
            /\ installed = {}
       ELSE /\ url_in = <<>>
            /\ verbose = FALSE
            /\ installed \in SUBSET Executables
    /\ url = url_in
    /\ sys_stdout = "real"
    /\ sys_stderr = "real"
    /\ saved_stdout = "real"
    /\ saved_stderr = "real"
    /\ real_out = <<>>
    /\ real_err = <<>>
    /\ discarded = <<>>
    /\ delegate_urls = <<>>
    /\ nlogs = 0
    /\ result = NoneResult
    /\ exc = ""
    /\ caught = FALSE
    /\ exit_code = -1
    /\ calls = <<>>

\* ----------------------------------------------------------------- fetch
\* fetch, lines 60-62: ensure the URL has a scheme prefix
FetchNormalize ==
    /\ cmd = "fetch" /\ pc = "start"
    /\ url' = NormalizeUrl(url)
    /\ pc' = "call"
    /\ UNCHANGED <<cmd, url_in, verbose, sys_stdout, sys_stderr, saved_stdout,
                   saved_stderr, real_out, real_err, discarded, delegate_urls,
                   nlogs, result, exc, caught, exit_code, installed, calls>>

\* crawl_webpage, lines 30-35 / 38-45: redirect unless verbose, hand the URL
\* to the crawler
CrawlEnter ==
    /\ cmd = "fetch" /\ pc = "call"
    /\ saved_stdout' = sys_stdout
    /\ saved_stderr' = sys_stderr
    /\ sys_stdout' = RedirectTarget(verbose, sys_stdout)
    /\ sys_stderr' = RedirectTarget(verbose, sys_stderr)
    /\ delegate_urls' = Append(delegate_urls, url)
    /\ pc' = "crawling"
    /\ UNCHANGED <<cmd, url_in, url, verbose, real_out, real_err, discarded,
                   nlogs, result, exc, caught, exit_code, installed, calls>>

\* the crawler logs to whatever sys.stdout / sys.stderr currently are
CrawlerLog ==
    /\ cmd = "fetch" /\ pc = "crawling" /\ nlogs < MaxLogs
    /\ nlogs' = nlogs + 1
    /\ \/ /\ WriteOut(sys_stdout, <<Entry("crawler", <<"[LOG]">>)>>)
          /\ UNCHANGED real_err
       \/ /\ WriteErr(sys_stderr, <<Entry("crawler", <<"[LOG]">>)>>)
          /\ UNCHANGED real_out
    /\ UNCHANGED <<cmd, pc, url_in, url, verbose, sys_stdout, sys_stderr,
                   saved_stdout, saved_stderr, delegate_urls, result, exc,
                   caught, exit_code, installed, calls>>

\* crawl_webpage, lines 36 / 46: return result.markdown, leaving the with
CrawlReturn ==
    /\ cmd = "fetch" /\ pc = "crawling"
    /\ \E r \in Results : result' = r
    /\ sys_stdout' = RestoreStream(verbose, saved_stdout, sys_stdout)
    /\ sys_stderr' = RestoreStream(verbose, saved_stderr, sys_stderr)
    /\ pc' = "returned"
    /\ UNCHANGED <<cmd, url_in, url, verbose, saved_stdout, saved_stderr,
                   real_out, real_err, discarded, delegate_urls, nlogs, exc,
                   caught, exit_code, installed, calls>>

\* the crawler raises inside crawl_webpage; the with block is left
CrawlRaise ==
    /\ cmd = "fetch" /\ pc = "crawling"
    /\ \E e \in DelegateErrors : exc' = e
    /\ sys_stdout' = RestoreStream(verbose, saved_stdout, sys_stdout)
    /\ sys_stderr' = RestoreStream(verbose, saved_stderr, sys_stderr)
    /\ pc' = "raised"
    /\ UNCHANGED <<cmd, url_in, url, verbose, saved_stdout, saved_stderr,
                   real_out, real_err, discarded, delegate_urls, nlogs,
                   result, caught, exit_code, installed, calls>>

SAD == <<"sad">>

FetchWriteSentinelAlways ==
    /\ cmd = "fetch" /\ pc = "returned"
    /\ WriteOut(sys_stdout, <<Entry("fetch", SAD)>>)
    /\ exit_code' = 0
    /\ pc' = "done"
    /\ UNCHANGED <<cmd, url_in, url, verbose, sys_stdout, sys_stderr,
                   saved_stdout, saved_stderr, real_err, delegate_urls, nlogs,
                   result, exc, caught, installed, calls>>

\* fetch, lines 65-68: print the result or the sentinel, return normally
FetchWriteResult ==
    /\ cmd = "fetch" /\ pc = "returned"
    /\ IF Truthy(result)
       THEN WriteOut(sys_stdout, <<Entry("fetch", result.text)>>)
       ELSE WriteOut(sys_stdout, <<Entry("fetch", SAD)>>)
    /\ exit_code' = 0
    /\ pc' = "done"
    /\ UNCHANGED <<cmd, url_in, url, verbose, sys_stdout, sys_stderr,
                   saved_stdout, saved_stderr, real_err, delegate_urls, nlogs,
                   result, exc, caught, installed, calls>>

FetchErrorText(u, e) == <<"Error fetching ">> \o u \o <<": ", e>>

FetchExceptNoExit ==
    /\ cmd = "fetch" /\ pc = "raised"
    /\ WriteErr(sys_stderr, <<Entry("fetch", FetchErrorText(url, exc))>>)
    /\ caught' = TRUE
    /\ exit_code' = 0
    /\ pc' = "done"
    /\ UNCHANGED <<cmd, url_in, url, verbose, sys_stdout, sys_stderr,
                   saved_stdout, saved_stderr, real_out, delegate_urls, nlogs,
                   result, exc, installed, calls>>

\* fetch, lines 69-71: except Exception -> message on stderr, sys.exit(1)
FetchExcept ==
    /\ cmd = "fetch" /\ pc = "raised"
    /\ WriteErr(sys_stderr, <<Entry("fetch", FetchErrorText(url, exc))>>)
    /\ caught' = TRUE
    /\ exit_code' = 1
    /\ pc' = "done"
    /\ UNCHANGED <<cmd, url_in, url, verbose, sys_stdout, sys_stderr,
                   saved_stdout, saved_stderr, real_out, delegate_urls, nlogs,
                   result, exc, installed, calls>>

\* ----------------------------------------------------------------- setup
\* shutil.which(path): the path resolves to an executable
which(path) == path \in installed

chrome_found_all == \A i \in 1..Len(chrome_paths) : which(chrome_paths[i])

\* setup, line 90: any(shutil.which(path) for path in chrome_paths)
chrome_found == \E i \in 1..Len(chrome_paths) : which(chrome_paths[i])

\* What launching prog can do: a missing executable cannot be launched; a
\* present one exits 0, exits non-zero, or fails to launch (not executable).
RunOutcomes(prog) ==
    IF which(prog) THEN {"ok", "nonzero", "oserror"} ELSE {"notfound"}

RunExceptionNoCheck(outcome) ==
    CASE outcome = "ok" -> ""
      [] outcome = "nonzero" -> ""
      [] outcome = "notfound" -> "FileNotFoundError"
      [] outcome = "oserror" -> "PermissionError"

\* subprocess.run(..., check=True): the exception raised, "" for none
RunException(outcome) ==
    CASE outcome = "ok" -> ""
      [] outcome = "nonzero" -> "CalledProcessError"
      [] outcome = "notfound" -> "FileNotFoundError"
      [] outcome = "oserror" -> "PermissionError"

Call(prog, outcome) == [prog |-> prog, outcome |-> outcome]

MSG_CHROME_NOT_FOUND == <<"Chrome not found. Installing Chrome via Playwright...">>
MSG_CHROME_INSTALLED == <<"Chrome installation completed!">>
MSG_SETUP_OK == <<"Setup completed successfully!">>
MSG_SETUP_FAILED == <<"Error: Setup failed!">>
MSG_SETUP_NOT_FOUND == <<"Error: crawl4ai-setup command not found!">>

\* setup, lines 82-93: look for a browser, announce the installation
SetupCheckChrome ==
    /\ cmd = "setup" /\ pc = "start"
    /\ IF chrome_found
       THEN /\ pc' = "run_setup"
            /\ UNCHANGED <<real_out, discarded>>
       ELSE /\ pc' = "install"
            /\ WriteOut(sys_stdout, <<Entry("setup", MSG_CHROME_NOT_FOUND)>>)
    /\ UNCHANGED <<cmd, url_in, url, verbose, sys_stdout, sys_stderr,
                   saved_stdout, saved_stderr, real_err, delegate_urls, nlogs,
                   result, exc, caught, exit_code, installed, calls>>

\* setup, lines 94-100: subprocess.run(["playwright", "install", "chrome"])
SetupInstall ==
    /\ cmd = "setup" /\ pc = "install"
    /\ \E o \in RunOutcomes(PLAYWRIGHT) :
          /\ calls' = Append(calls, Call(PLAYWRIGHT, o))
          /\ exc' = RunException(o)
          /\ IF RunException(o) = ""
             THEN /\ pc' = "run_setup"
                  /\ WriteOut(sys_stdout,
                              <<Entry("setup", MSG_CHROME_INSTALLED)>>)
             ELSE /\ pc' = "raised"
                  /\ UNCHANGED <<real_out, discarded>>
    /\ UNCHANGED <<cmd, url_in, url, verbose, sys_stdout, sys_stderr,
                   saved_stdout, saved_stderr, real_err, delegate_urls, nlogs,
                   result, caught, exit_code, installed>>

\* setup, lines 102-106: subprocess.run(["crawl4ai-setup"]), success output
SetupRun ==
    /\ cmd = "setup" /\ pc = "run_setup"
    /\ \E o \in RunOutcomes(CRAWL4AI_SETUP) :
          /\ calls' = Append(calls, Call(CRAWL4AI_SETUP, o))
          /\ exc' = RunException(o)
          /\ IF RunException(o) = ""
             THEN /\ pc' = "done"
                  /\ exit_code' = 0
                  /\ WriteOut(sys_stdout,
                              << Entry("setup", MSG_SETUP_OK),
                                 Entry("setup", <<"stdout of ", CRAWL4AI_SETUP>>) >>)
             ELSE /\ pc' = "raised"
                  /\ UNCHANGED <<exit_code, real_out, discarded>>
    /\ UNCHANGED <<cmd, url_in, url, verbose, sys_stdout, sys_stderr,
                   saved_stdout, saved_stderr, real_err, delegate_urls, nlogs,
                   result, caught, installed>>

\* the program whose subprocess.run raised
FailedProg == calls[Len(calls)].prog

CalledProcessDiagnostics ==
    << Entry("setup", MSG_SETUP_FAILED),
       Entry("setup", <<"\nError details:">>),
       Entry("setup", <<"stderr of ", FailedProg>>),
       Entry("setup", <<"\nPossible solutions:">>),
       Entry("setup", <<"1. Ensure crawl4ai is properly installed in your environment">>),
       Entry("setup", <<"2. Try running 'poetry install' again">>),
       Entry("setup", <<"3. Check if you have proper permissions to install dependencies">>) >>

SetupExceptCalledProcessErrorNoExit ==
    /\ cmd = "setup" /\ pc = "raised" /\ exc = "CalledProcessError"
    /\ WriteErr(sys_stderr, CalledProcessDiagnostics)
    /\ caught' = TRUE
    /\ exit_code' = 0
    /\ pc' = "done"
    /\ UNCHANGED <<cmd, url_in, url, verbose, sys_stdout, sys_stderr,
                   saved_stdout, saved_stderr, real_out, delegate_urls, nlogs,
                   result, exc, installed, calls>>

\* setup, lines 107-121: except subprocess.CalledProcessError
SetupExceptCalledProcessError ==
    /\ cmd = "setup" /\ pc = "raised" /\ exc = "CalledProcessError"
    /\ WriteErr(sys_stderr, CalledProcessDiagnostics)
    /\ caught' = TRUE
    /\ exit_code' = 1
    /\ pc' = "done"
    /\ UNCHANGED <<cmd, url_in, url, verbose, sys_stdout, sys_stderr,
                   saved_stdout, saved_stderr, real_out, delegate_urls, nlogs,
                   result, exc, installed, calls>>

FileNotFoundDiagnostics ==
    << Entry("setup", MSG_SETUP_NOT_FOUND),
       Entry("setup", <<"\nPossible solutions:">>),
       Entry("setup", <<"1. Make sure you're in the poetry environment (run 'poetry shell')">>),
       Entry("setup", <<"2. Try reinstalling dependencies with 'poetry install'">>) >>

\* setup, lines 122-130: except FileNotFoundError, whichever run raised it
SetupExceptFileNotFoundError ==
    /\ cmd = "setup" /\ pc = "raised" /\ exc = "FileNotFoundError"
    /\ WriteErr(sys_stderr, FileNotFoundDiagnostics)
    /\ caught' = TRUE
    /\ exit_code' = 1
    /\ pc' = "done"
    /\ UNCHANGED <<cmd, url_in, url, verbose, sys_stdout, sys_stderr,
                   saved_stdout, saved_stderr, real_out, delegate_urls, nlogs,
                   result, exc, installed, calls>>

\* setup has no except clause for any other exception: it leaves setup and
\* app() (main, line 134); the interpreter reports it and exits with 1
SetupUncaught ==
    /\ cmd = "setup" /\ pc = "raised"
    /\ exc \notin {"CalledProcessError", "FileNotFoundError"}
    /\ WriteErr(sys_stderr, <<Entry("runtime", <<"Traceback: ", exc>>)>>)
    /\ caught' = FALSE
    /\ exit_code' = 1
    /\ pc' = "done"
    /\ UNCHANGED <<cmd, url_in, url, verbose, sys_stdout, sys_stderr,
                   saved_stdout, saved_stderr, real_out, delegate_urls, nlogs,
                   result, exc, installed, calls>>

\* ------------------------------------------------------------------ Next
Next ==
    \/ FetchNormalize
    \/ CrawlEnter
    \/ CrawlerLog
    \/ CrawlReturn
    \/ CrawlRaise
    \/ FetchWriteResult
    \/ FetchExcept
    \/ SetupCheckChrome
    \/ SetupInstall
    \/ SetupRun
    \/ SetupExceptCalledProcessError
    \/ SetupExceptFileNotFoundError
    \/ SetupUncaught

Spec == Init /\ [][Next]_vars

\* ------------------------------------------------------------ properties
IsPrefixAt(u, p) == Len(u) >= Len(p) /\ \A i \in 1..Len(p) : u[i] = p[i]

HasScheme(u) == IsPrefixAt(u, HTTP) \/ IsPrefixAt(u, HTTPS)

WrittenBy(stream, who) == SelectSeq(stream, LAMBDA e : e.by = who)

ChromePathSet == {chrome_paths[i] : i \in 1..Len(chrome_paths)}

Invoked(prog) == \E i \in 1..Len(calls) : calls[i].prog = prog

\* C1: the URL handed to the crawl delegate is "https://" followed by the
\* input when the input starts with neither "http://" nor "https://", and
\* the unchanged input otherwise; it always starts with one of the two.
C1_DelegateUrlNormalized ==
    \A i \in 1..Len(delegate_urls) :
        LET d == delegate_urls[i] IN
        /\ ~HasScheme(url_in) => d = HTTPS \o url_in
        /\ HasScheme(url_in) => d = url_in
        /\ HasScheme(d)

C1_Witness ==
    /\ delegate_urls = <<HTTPS \o <<"h", "t", "t", "p", ":", "/", "a">> >>
    /\ url_in = <<"h", "t", "t", "p", ":", "/", "a">>

\* C2: when the delegate raises, verbose or not, fetch writes the error
\* message to the real standard error, writes nothing itself to standard
\* output, and ends with exit code 1.
C2_DelegateRaiseExitsOne ==
    (cmd = "fetch" /\ pc = "done" /\ exc # "") =>
        /\ exit_code = 1
        /\ WrittenBy(real_err, "fetch")
              = <<Entry("fetch", <<"Error fetching ">> \o delegate_urls[1]
                                     \o <<": ", exc>>)>>
        /\ WrittenBy(real_out, "fetch") = <<>>
        /\ WrittenBy(discarded, "fetch") = <<>>

C2_Witness ==
    /\ cmd = "fetch" /\ pc = "done" /\ exc = "TimeoutError" /\ ~verbose
    /\ exit_code = 1
    /\ Len(real_err) = 1

\* C3: setup ends with exit code 0 when every subprocess it ran succeeded
\* and with exit code 1 when one of them returned a non-zero status.
C3_SetupExitCode ==
    (cmd = "setup" /\ pc = "done") =>
        /\ (\A i \in 1..Len(calls) : calls[i].outcome = "ok") => exit_code = 0
        /\ (\E i \in 1..Len(calls) : calls[i].outcome = "nonzero")
              => exit_code = 1

C3_Witness ==
    /\ cmd = "setup" /\ pc = "done"
    /\ calls = <<Call(PLAYWRIGHT, "ok"), Call(CRAWL4AI_SETUP, "nonzero")>>
    /\ exit_code = 1

\* C4: when the delegate returns a non-empty result without raising, fetch
\* writes exactly that result to standard output, nothing to standard
\* error, and ends with exit code 0.
C4_ResultWritten ==
    (cmd = "fetch" /\ pc = "done" /\ exc = ""
        /\ ~result.isNone /\ Len(result.text) > 0) =>
        /\ WrittenBy(real_out, "fetch") = <<Entry("fetch", result.text)>>
        /\ WrittenBy(real_err, "fetch") = <<>>
        /\ WrittenBy(discarded, "fetch") = <<>>
        /\ exit_code = 0

C4_Witness ==
    /\ cmd = "fetch" /\ pc = "done" /\ ~verbose
    /\ result = [isNone |-> FALSE, text |-> <<"# Title">>]
    /\ real_out = <<Entry("fetch", <<"# Title">>)>>
    /\ exit_code = 0

\* C5: every failure of the fetch delegate or of a setup subprocess is
\* caught by the command handler itself, which prints a diagnostic and
\* exits with code 1.
C5_AllFailuresCaught ==
    (pc = "done" /\ exc # "") =>
        /\ caught
        /\ exit_code = 1
        /\ WrittenBy(real_err, cmd) # <<>>

\* C6: in setup the browser installer is invoked if and only if none of
\* the known browser paths resolves to an executable; when a browser is
\* found the first subprocess run is the one-time setup executable.
C6_InstallerIffNoBrowser ==
    cmd = "setup" =>
        /\ pc \in {"run_setup", "raised", "done"} =>
              (Invoked(PLAYWRIGHT) <=> installed \cap ChromePathSet = {})
        /\ pc \in {"start", "install"} => calls = <<>>
        /\ pc = "install" => installed \cap ChromePathSet = {}
        /\ (installed \cap ChromePathSet # {} /\ calls # <<>>)
              => calls[1].prog = CRAWL4AI_SETUP

C6_Witness ==
    /\ cmd = "setup" /\ pc = "done"
    /\ installed \cap ChromePathSet = {"chromium"}
    /\ calls = <<Call(CRAWL4AI_SETUP, "ok")>>

\* C7: when the delegate returns None or an empty result without raising,
\* fetch prints the sentinel "sad" to standard output, nothing to standard
\* error, and ends with exit code 0.
C7_SentinelOnNoContent ==
    (cmd = "fetch" /\ pc = "done" /\ exc = ""
        /\ (result.isNone \/ Len(result.text) = 0)) =>
        /\ WrittenBy(real_out, "fetch") = <<Entry("fetch", <<"sad">>)>>
        /\ WrittenBy(real_err, "fetch") = <<>>
        /\ WrittenBy(discarded, "fetch") = <<>>
        /\ exit_code = 0

C7_Witness ==
    /\ cmd = "fetch" /\ pc = "done" /\ exc = ""
    /\ result = [isNone |-> FALSE, text |-> <<>>]
    /\ real_out = <<Entry("fetch", <<"sad">>)>>

HasText(stream, text) == \E i \in 1..Len(stream) : stream[i].text = text

\* C8: the one-time setup executable is run at most once, only after the
\* browser check and with every earlier subprocess successful; if the
\* installer fails it is never run and the success message never printed.
C8_SetupRunOrder ==
    cmd = "setup" =>
        /\ Cardinality({i \in 1..Len(calls) :
                           calls[i].prog = CRAWL4AI_SETUP}) <= 1
        /\ \A i \in 1..Len(calls) :
              calls[i].prog = CRAWL4AI_SETUP =>
                 /\ pc # "start"
                 /\ \A j \in 1..(i - 1) : calls[j].outcome = "ok"
                 /\ i = 1 => installed \cap ChromePathSet # {}
        /\ (\E i \in 1..Len(calls) :
               calls[i].prog = PLAYWRIGHT /\ calls[i].outcome # "ok") =>
              /\ ~Invoked(CRAWL4AI_SETUP)
              /\ ~HasText(real_out, <<"Setup completed successfully!">>)
              /\ ~HasText(discarded, <<"Setup completed successfully!">>)

C8_Witness ==
    /\ cmd = "setup" /\ pc = "done"
    /\ calls = <<Call(PLAYWRIGHT, "nonzero")>>
    /\ CRAWL4AI_SETUP \in installed

\* C9: without --verbose the streams are bound to the discarded buffers
\* exactly while the delegate runs and are back on the real streams once
\* crawl_webpage has returned or raised, so nothing fetch prints is
\* discarded; with --verbose the streams are never redirected.
C9_RedirectOnlyDuringCrawl ==
    cmd = "fetch" =>
        /\ verbose => (sys_stdout = "real" /\ sys_stderr = "real"
                         /\ discarded = <<>>)
        /\ (~verbose /\ pc = "crawling") =>
              (sys_stdout = "buffer" /\ sys_stderr = "buffer")
        /\ pc # "crawling" => (sys_stdout = "real" /\ sys_stderr = "real")
        /\ WrittenBy(discarded, "fetch") = <<>>
        /\ WrittenBy(real_out, "crawler") # <<>> => verbose
        /\ WrittenBy(real_err, "crawler") # <<>> => verbose
        /\ pc = "done" =>
              Len(WrittenBy(real_out, "fetch"))
                 + Len(WrittenBy(real_err, "fetch")) = 1

C9_Witness ==
    /\ cmd = "fetch" /\ pc = "done" /\ ~verbose
    /\ discarded = <<Entry("crawler", <<"[LOG]">>)>>
    /\ exc = "RuntimeError"
    /\ Len(real_err) = 1 /\ real_err[1].by = "fetch"

\* C10: "Error: crawl4ai-setup command not found!" is printed only when
\* the one-time setup executable could not be found; a missing installer
\* executable does not produce it.
C10_NotFoundDiagnosticOnlyForSetupExe ==
    HasText(real_err, <<"Error: crawl4ai-setup command not found!">>) =>
        /\ calls # <<>>
        /\ calls[Len(calls)] = Call(CRAWL4AI_SETUP, "notfound")

====
